---- MODULE Spec2Model ----
(***************************************************************************)
(* The s-expression pipeline of examples/logos.rs: a logos lexer           *)
(* (Token), a chumsky parser (parser), a tree-walking evaluator            *)
(* (SExpr::eval) and the driver (main) that chains them.                   *)
(*                                                                         *)
(* A text is a sequence of one-character strings; byte offsets are         *)
(* 0-based and spans are half-open [lo, hi), as in the source.             *)
(***************************************************************************)
EXTENDS Integers, Sequences, FiniteSets, TLC

VARIABLES src, pc, tokens, cursor, out, errs, result, evalCalls

vars == <<src, pc, tokens, cursor, out, errs, result, evalCalls>>

(***************************************************************************)
(* Bounds of the input sets.                                               *)
(***************************************************************************)
MaxLen == 3
MaxWords == 4
MaxArgs == 3

(***************************************************************************)
(* Character classes of the Token regexes.                                 *)
(***************************************************************************)
Digits == {"0", "1", "2", "3", "4", "5", "7", "8"}

Signs == {"+", "-"}

WhitespaceChars == {" ", "\t", "\f", "\n"}

IsDigit(c) == c \in Digits

Slice(text, lo, hi) == SubSeq(text, lo + 1, hi)

\* The first offset >= i at which text holds no character of class: the end
\* of the run [0-9]* or [ \t\f\n]* that starts at offset i.
RECURSIVE RunEnd(_, _, _)
RunEnd(text, class, i) ==
    IF i < Len(text) /\ text[i + 1] \in class
    THEN RunEnd(text, class, i + 1)
    ELSE i

\* FloatEnd without the optional sign of the regex.
FloatEndNoSign(text, p) ==
    LET d1 == RunEnd(text, Digits, p)
        d2 == IF d1 < Len(text) /\ text[d1 + 1] = "."
              THEN RunEnd(text, Digits, d1 + 1)
              ELSE d1
    IN  IF d2 > d1 + 1 THEN d2
        ELSE IF d1 > p THEN d1
        ELSE p

\* End offset of the longest match of [+-]?([0-9]*[.])?[0-9]+ that starts at
\* offset p, or p when the regex matches nothing there.
FloatEnd(text, p) ==
    LET a  == IF p < Len(text) /\ text[p + 1] \in Signs THEN p + 1 ELSE p
        d1 == RunEnd(text, Digits, a)
        d2 == IF d1 < Len(text) /\ text[d1 + 1] = "."
              THEN RunEnd(text, Digits, d1 + 1)
              ELSE d1
    IN  IF d2 > d1 + 1 THEN d2
        ELSE IF d1 > a THEN d1
        ELSE p

PunctToken(c) ==
    CASE c = "+" -> "Add"
      [] c = "-" -> "Sub"
      [] c = "*" -> "Mul"
      [] c = "/" -> "Div"
      [] c = "(" -> "LParen"
      [] c = ")" -> "RParen"
      [] OTHER   -> "Error"

\* One call of the spanned lexer's next() at offset p (p < Len(text)): the
\* longest match among the Token patterns.  A whitespace run is a match
\* with skip = TRUE; a position where nothing matches is an Err(()) over one
\* byte, which main maps to Token::Error.
LexAt(text, p) ==
    LET c == text[p + 1]
        f == FloatEnd(text, p)
    IN  IF c \in WhitespaceChars
        THEN [skip |-> TRUE, tok |-> "Whitespace", lo |-> p,
              hi |-> RunEnd(text, WhitespaceChars, p)]
        ELSE IF f > p
        THEN [skip |-> FALSE, tok |-> "Float", lo |-> p, hi |-> f]
        ELSE [skip |-> FALSE, tok |-> PunctToken(c), lo |-> p, hi |-> p + 1]

\* Token::lexer(SRC).spanned().map(..) drained from offset p: the emitted
\* (token, span) pairs in order.  Float carries its source substring s.
RECURSIVE LexFrom(_, _)

\* LexFrom resuming one byte too far after a skipped whitespace run.
LexFromSkipBug(text, p) ==
    IF p >= Len(text) THEN <<>>
    ELSE LET m == LexAt(text, p)
         IN  IF m.skip THEN LexFrom(text, m.hi + 1)
             ELSE <<[tok |-> m.tok, s |-> Slice(text, m.lo, m.hi),
                     lo |-> m.lo, hi |-> m.hi]>> \o LexFrom(text, m.hi)

LexFrom(text, p) ==
    IF p >= Len(text) THEN <<>>
    ELSE LET m == LexAt(text, p)
         IN  IF m.skip THEN LexFrom(text, m.hi)
             ELSE <<[tok |-> m.tok, s |-> Slice(text, m.lo, m.hi),
                     lo |-> m.lo, hi |-> m.hi]>> \o LexFrom(text, m.hi)

tokenize(text) == LexFrom(text, 0)

(***************************************************************************)
(* f64.  A finite value is sign * n / d in lowest terms (so zero keeps its *)
(* sign), and the two infinities and NaN are values of their own, with the *)
(* IEEE 754 rules for them.  Rounding is not modelled: finite arithmetic   *)
(* is exact.                                                               *)
(***************************************************************************)
RECURSIVE GCD(_, _)
GCD(a, b) == IF b = 0 THEN a ELSE GCD(b, a % b)

Fin(s, n, d) ==
    LET g == GCD(n, d)
    IN  [k |-> "fin", s |-> s, n |-> n \div g, d |-> d \div g]

NaN == [k |-> "nan", s |-> 1, n |-> 0, d |-> 0]

Inf(s) == [k |-> "inf", s |-> s, n |-> 1, d |-> 0]

Zero(s) == [k |-> "fin", s |-> s, n |-> 0, d |-> 1]

One == [k |-> "fin", s |-> 1, n |-> 1, d |-> 1]

IsZero(x) == x.k = "fin" /\ x.n = 0

Neg(x) == IF x.k = "nan" THEN x ELSE [x EXCEPT !.s = 0 - x.s]

FAdd(a, b) ==
    IF a.k = "nan" \/ b.k = "nan" THEN NaN
    ELSE IF a.k = "inf"
    THEN IF b.k = "inf" /\ b.s # a.s THEN NaN ELSE a
    ELSE IF b.k = "inf" THEN b
    ELSE LET num == a.s * a.n * b.d + b.s * b.n * a.d
         IN  IF num = 0
             THEN IF IsZero(a) /\ IsZero(b) /\ a.s = -1 /\ b.s = -1
                  THEN Zero(-1) ELSE Zero(1)
             ELSE IF num > 0 THEN Fin(1, num, a.d * b.d)
             ELSE Fin(-1, 0 - num, a.d * b.d)

FSub(a, b) == FAdd(a, Neg(b))

FMul(a, b) ==
    IF a.k = "nan" \/ b.k = "nan" THEN NaN
    ELSE IF (a.k = "inf" /\ IsZero(b)) \/ (IsZero(a) /\ b.k = "inf") THEN NaN
    ELSE IF a.k = "inf" \/ b.k = "inf" THEN Inf(a.s * b.s)
    ELSE Fin(a.s * b.s, a.n * b.n, a.d * b.d)

FDiv(a, b) ==
    IF a.k = "nan" \/ b.k = "nan" THEN NaN
    ELSE IF (a.k = "inf" /\ b.k = "inf") \/ (IsZero(a) /\ IsZero(b)) THEN NaN
    ELSE IF a.k = "inf" THEN Inf(a.s * b.s)
    ELSE IF b.k = "inf" THEN Zero(a.s * b.s)
    ELSE IF IsZero(b) THEN Inf(a.s * b.s)
    ELSE Fin(a.s * b.s, a.n * b.d, a.d * b.n)

DigitVal(c) ==
    CASE c = "0" -> 0 [] c = "1" -> 1 [] c = "2" -> 2 [] c = "3" -> 3
      [] c = "4" -> 4 [] c = "5" -> 5 [] c = "7" -> 7 [] c = "8" -> 8

\* The decimal digits s[i..j] read as a natural number, with acc the value
\* of the digits before them.
RECURSIVE DecVal(_, _, _, _)
DecVal(s, i, j, acc) ==
    IF i > j THEN acc ELSE DecVal(s, i + 1, j, 10 * acc + DigitVal(s[i]))

RECURSIVE Pow10(_)
Pow10(e) == IF e = 0 THEN 1 ELSE 10 * Pow10(e - 1)

\* x.parse::<f64>() on a substring the Float regex matched: sign, integer
\* digits, and the digits after the point if there is one.
ParseFloat(s) ==
    LET sg  == IF s[1] = "-" THEN -1 ELSE 1
        a   == IF s[1] \in Signs THEN 2 ELSE 1
        dot == IF \E i \in a..Len(s) : s[i] = "."
               THEN CHOOSE i \in a..Len(s) : s[i] = "."
               ELSE Len(s) + 1
        fr  == IF dot > Len(s) THEN 0 ELSE Len(s) - dot
        ip  == DecVal(s, a, dot - 1, 0)
    IN  Fin(sg, DecVal(s, dot + 1, Len(s), ip), Pow10(fr))

(***************************************************************************)
(* SExpr and the parser.  A parser applied at token index i (1-based; the *)
(* index Len(toks) + 1 is the end of input) gives ok, the node, the index  *)
(* after what it consumed, the errors emitted through validate, and alt:   *)
(* the furthest index at which an alternative failed (0 if none did).  A   *)
(* parser that fails consumed nothing and keeps no emitted error.          *)
(***************************************************************************)
ErrorNode == [k |-> "Error"]

FloatNode(v) == [k |-> "Float", v |-> v]

OpNode(t) == [k |-> t]

ListNode(items) == [k |-> "List", items |-> items]

Operators == {"Add", "Sub", "Mul", "Div"}

Max2(a, b) == IF a >= b THEN a ELSE b

Fail(i) ==
    [ok |-> FALSE, node |-> ErrorNode, next |-> i, errs |-> <<>>, alt |-> i]

Done(node, next, es, alt) ==
    [ok |-> TRUE, node |-> node, next |-> next, errs |-> es, alt |-> alt]

TokAt(toks, i) == IF i <= Len(toks) THEN toks[i].tok ELSE "EndOfInput"

\* select! { Float(x) => SExpr::Float(x.parse().unwrap()), Add => .. }
atom(toks, i) ==
    LET t == TokAt(toks, i)
    IN  IF t = "Float" THEN Done(FloatNode(ParseFloat(toks[i].s)), i + 1, <<>>, 0)
        ELSE IF t \in Operators THEN Done(OpNode(t), i + 1, <<>>, 0)
        ELSE Fail(i)

\* format!("Unrecognised token '{}'", slice)
Unrecognised(slice) == <<"Unrecognised token '">> \o slice \o <<"'">>

\* error without the emitter.emit(..) call.
errorNoEmit(text, toks, i) ==
    IF TokAt(toks, i) = "Error" THEN Done(ErrorNode, i + 1, <<>>, 0) ELSE Fail(i)

\* just(Token::Error).slice().validate(..): the slice is cut from the text
\* the stream was built with (with_slice), at the token's span.
error(text, toks, i) ==
    IF TokAt(toks, i) = "Error"
    THEN Done(ErrorNode, i + 1,
              <<[lo |-> toks[i].lo, hi |-> toks[i].hi,
                 reason |-> Unrecognised(Slice(text, toks[i].lo, toks[i].hi))]>>,
              0)
    ELSE Fail(i)

RECURSIVE sexpr(_, _, _)
RECURSIVE repeated(_, _, _)

\* list that takes the end of input for the closing delimiter.
listUnclosed(text, toks, i) ==
    IF TokAt(toks, i) # "LParen" THEN Fail(i)
    ELSE LET body == repeated(text, toks, i + 1)
         IN  IF TokAt(toks, body.next) = "RParen"
             THEN Done(ListNode(body.node), body.next + 1, body.errs, body.alt)
             ELSE IF body.next > Len(toks)
             THEN Done(ListNode(body.node), body.next, body.errs, body.alt)
             ELSE Fail(Max2(body.alt, body.next))

\* repeated that stops after the first item.
repeatedAtMostOne(text, toks, i) ==
    LET r == sexpr(text, toks, i)
    IN  IF ~r.ok THEN Done(<<>>, i, <<>>, r.alt)
        ELSE Done(<<r.node>>, r.next, r.errs, r.alt)

\* sexpr.repeated().collect().map(SExpr::List)
\*     .delimited_by(just(Token::LParen), just(Token::RParen))
list(text, toks, i) ==
    IF TokAt(toks, i) # "LParen" THEN Fail(i)
    ELSE LET body == repeated(text, toks, i + 1)
         IN  IF TokAt(toks, body.next) = "RParen"
             THEN Done(ListNode(body.node), body.next + 1, body.errs, body.alt)
             ELSE Fail(Max2(body.alt, body.next))

\* sexpr.repeated().collect(): items until sexpr fails; never fails itself.
\* Its node is the collected Vec.
repeated(text, toks, i) ==
    LET r == sexpr(text, toks, i)
    IN  IF ~r.ok THEN Done(<<>>, i, <<>>, r.alt)
        ELSE LET rest == repeated(text, toks, r.next)
             IN  Done(<<r.node>> \o rest.node, rest.next,
                      r.errs \o rest.errs, Max2(r.alt, rest.alt))

\* atom.or(list).or(error)
sexpr(text, toks, i) ==
    LET a == atom(toks, i)
    IN  IF a.ok THEN a
        ELSE LET l == list(text, toks, i)
             IN  IF l.ok THEN l
                 ELSE LET e == error(text, toks, i)
                      IN  IF e.ok THEN e
                          ELSE Fail(Max2(a.alt, Max2(l.alt, e.alt)))

\* The span of token index i of the stream: a token's own span, or the
\* end-of-input span (SRC.len()..SRC.len()) past the last token.
SpanAt(text, toks, i) ==
    IF i <= Len(toks) THEN [lo |-> toks[i].lo, hi |-> toks[i].hi]
    ELSE [lo |-> Len(text), hi |-> Len(text)]

\* impl fmt::Display for Token
fmt(t) ==
    CASE t.tok = "Float"  -> t.s
      [] t.tok = "Add"    -> <<"+">>
      [] t.tok = "Sub"    -> <<"-">>
      [] t.tok = "Mul"    -> <<"*">>
      [] t.tok = "Div"    -> <<"/">>
      [] t.tok = "LParen" -> <<"(">>
      [] t.tok = "RParen" -> <<")">>
      [] t.tok = "Whitespace" -> <<"<whitespace>">>
      [] t.tok = "Error"  -> <<"<error>">>

\* The error a failed parse ends with: it names what was found at index i,
\* the furthest place an alternative failed, with that token's span.
Unexpected(text, toks, i) ==
    LET sp == SpanAt(text, toks, i)
    IN  [lo |-> sp.lo, hi |-> sp.hi,
         reason |-> IF i <= Len(toks) THEN <<"found ">> \o fmt(toks[i])
                    ELSE <<"found end of input">>]

\* parse that does not require the end of input after the expression.
parseNoEnd(text, toks) ==
    LET r == sexpr(text, toks, 1)
    IN  IF r.ok THEN [out |-> <<r.node>>, errs |-> r.errs, next |-> r.next]
        ELSE [out |-> <<>>, errs |-> <<Unexpected(text, toks, r.alt)>>, next |-> 1]

\* parser().parse(token_stream).into_output_errors(): the expression must be
\* followed by the end of input.  Some(x) is <<x>> and None is <<>>.
parse(text, toks) ==
    LET r == sexpr(text, toks, 1)
    IN  IF r.ok /\ r.next = Len(toks) + 1
        THEN [out |-> <<r.node>>, errs |-> r.errs, next |-> r.next]
        ELSE IF r.ok
        THEN [out |-> <<>>,
              errs |-> r.errs \o <<Unexpected(text, toks, Max2(r.alt, r.next))>>,
              next |-> r.next]
        ELSE [out |-> <<>>, errs |-> <<Unexpected(text, toks, r.alt)>>, next |-> 1]

(***************************************************************************)
(* SExpr::eval.  A result is Ok(v), Err(reason) or the panic of the        *)
(* unreachable!() arm; visited lists, in call order, the paths (child      *)
(* indices from the root) of the nodes eval was called on.                 *)
(***************************************************************************)
Ok(v, visited) == [st |-> "Ok", v |-> v, err |-> "", visited |-> visited]

Err(reason, visited) == [st |-> "Err", v |-> NaN, err |-> reason, visited |-> visited]

Panic(visited) ==
    [st |-> "Panic", v |-> NaN,
     err |-> "Evaluation of an error node should never happen", visited |-> visited]

OperatorError(k) ==
    CASE k = "Add" -> "Cannot evaluate operator '+'"
      [] k = "Sub" -> "Cannot evaluate operator '-'"
      [] k = "Mul" -> "Cannot evaluate operator '*'"
      [] k = "Div" -> "Cannot evaluate operator '/'"

RECURSIVE eval(_, _, _)
RECURSIVE Fold(_, _, _, _, _, _)

\* Fold that adds where it should multiply.
FoldAlwaysAdds(items, i, acc, mul, path, zero) ==
    IF i > Len(items) THEN Ok(acc, <<>>)
    ELSE LET r == eval(items[i], path \o <<i>>, zero)
         IN  IF r.st # "Ok" THEN r
             ELSE LET rest == Fold(items, i + 1, FAdd(acc, r.v), mul, path, zero)
                  IN  [rest EXCEPT !.visited = r.visited \o @]

\* tail.iter().map(SExpr::eval).sum() / .product() over items[i..], with acc
\* the value folded so far: the first Err ends the iteration.
Fold(items, i, acc, mul, path, zero) ==
    IF i > Len(items) THEN Ok(acc, <<>>)
    ELSE LET r == eval(items[i], path \o <<i>>, zero)
         IN  IF r.st # "Ok" THEN r
             ELSE LET rest == Fold(items, i + 1,
                                   IF mul THEN FMul(acc, r.v) ELSE FAdd(acc, r.v),
                                   mul, path, zero)
                  IN  [rest EXCEPT !.visited = r.visited \o @]

\* Binary that sums the tail for / as it does for -.
BinarySumTail(items, div, path, zero) ==
    LET init == eval(items[2], path \o <<2>>, zero)
    IN  IF init.st # "Ok" THEN init
        ELSE LET t == Fold(items, 3, zero, FALSE, path, zero)
             IN  IF t.st # "Ok" THEN [t EXCEPT !.visited = init.visited \o @]
                 ELSE Ok(IF div THEN FDiv(init.v, t.v) ELSE FSub(init.v, t.v),
                         init.visited \o t.visited)

\* Binary that evaluates the tail before the first operand.
BinaryTailFirst(items, div, path, zero) ==
    LET t == Fold(items, 3, IF div THEN One ELSE zero, div, path, zero)
    IN  IF t.st # "Ok" THEN t
        ELSE LET init == eval(items[2], path \o <<2>>, zero)
             IN  IF init.st # "Ok" THEN [init EXCEPT !.visited = t.visited \o @]
                 ELSE Ok(IF div THEN FDiv(init.v, t.v) ELSE FSub(init.v, t.v),
                         t.visited \o init.visited)

\* The List arm: init.eval()? (-|/) the fold of the tail.
Binary(items, div, path, zero) ==
    LET init == eval(items[2], path \o <<2>>, zero)
    IN  IF init.st # "Ok" THEN init
        ELSE LET t == Fold(items, 3, IF div THEN One ELSE zero, div, path, zero)
             IN  IF t.st # "Ok" THEN [t EXCEPT !.visited = init.visited \o @]
                 ELSE Ok(IF div THEN FDiv(init.v, t.v) ELSE FSub(init.v, t.v),
                         init.visited \o t.visited)

\* zero is the value an empty f64 sum starts from.
eval(node, path, zero) ==
    LET here(r) == [r EXCEPT !.visited = <<path>> \o @]
        head    == IF node.k = "List" /\ Len(node.items) > 0
                   THEN node.items[1].k ELSE "none"
    IN  CASE node.k = "Error" -> Panic(<<path>>)
          [] node.k = "Float" -> Ok(node.v, <<path>>)
          [] node.k \in Operators -> Err(OperatorError(node.k), <<path>>)
          [] node.k = "List" ->
               IF head = "Add" THEN here(Fold(node.items, 2, zero, FALSE, path, zero))
               ELSE IF head = "Mul" THEN here(Fold(node.items, 2, One, TRUE, path, zero))
               ELSE IF head = "Sub" /\ Len(node.items) >= 2
               THEN here(Binary(node.items, FALSE, path, zero))
               ELSE IF head = "Div" /\ Len(node.items) >= 2
               THEN here(Binary(node.items, TRUE, path, zero))
               ELSE Err("Cannot evaluate list", <<path>>)

(***************************************************************************)
(* Input texts.                                                            *)
(***************************************************************************)
\* const SRC, the text main runs on.
SRC ==
    <<"\n", " ", " ", " ", " ", "(", "-">>
    \o <<"\n", " ", " ", " ", " ", " ", " ", " ", " ", "(", "*", " ", "(", "+", " ", "4", " ", "7", ".", "3", ")", " ", "7", ")">>
    \o <<"\n", " ", " ", " ", " ", " ", " ", " ", " ", "(", "/", " ", "5", " ", "3", ")">>
    \o <<"\n", " ", " ", " ", " ", ")", "\n">>

SeqsUpTo(S, n) == UNION {[1..m -> S] : m \in 0..n}

\* The words joined by single spaces.
RECURSIVE Join(_)
Join(ws) ==
    IF ws = <<>> THEN <<>>
    ELSE IF Len(ws) = 1 THEN ws[1]
    ELSE ws[1] \o <<" ">> \o Join(Tail(ws))

Chars == {"(", ")", "+", "-", "*", "/", "0", "1", ".", " ", "@"}

\* Every text of at most MaxLen characters.
RawTexts == SeqsUpTo(Chars, MaxLen)

Lexemes ==
    { <<"(">>,
      <<")">>,
      <<"+">>,
      <<"-">>,
      <<"*">>,
      <<"/">>,
      <<"2">>,
      <<"@">> }

\* At most MaxWords lexemes, separated by spaces.
WordTexts == {Join(ws) : ws \in SeqsUpTo(Lexemes, MaxWords)}

Heads ==
    { <<"+">>,
      <<"-">>,
      <<"*">>,
      <<"/">>,
      <<"1">>,
      <<"(", ")">> }

Operands ==
    { <<"1">>,
      <<"2">>,
      <<"0">>,
      <<"+">>,
      <<"@">>,
      <<"(", ")">>,
      <<"(", "*", " ", "2", " ", "2", ")">>,
      <<"(", "@", " ", "1", ")">>,
      <<"(", "+", " ", "/", " ", "1", ")">> }

\* A list of a head and at most MaxArgs operands.
CallTexts ==
    {<<"(">> \o Join(<<h>> \o as) \o <<")">> :
        h \in Heads, as \in SeqsUpTo(Operands, MaxArgs)}

Scenarios ==
    { <<>>,
      <<"(", "+", " ", "1", " ", "2", " ", "3", ")">>,
      <<"(", "*", " ", ")">>,
      <<"(", "-", " ", "1", "0", " ", "3", " ", "2", ")">>,
      <<"(", "/", " ", "8", " ", "2", " ", "2", ")">>,
      <<"(", "+", " ", "1", " ", "@", ")">>,
      <<"(", "+", ")">>,
      <<"(", "-", ")">>,
      <<"(", "/", ")">>,
      <<"(", "+", "1", " ", "2", ")">>,
      <<"(", "+", " ", "1", " ", "2", ")">>,
      <<"(", "-", " ", "+", " ", "(", "1", ")", ")">>,
      <<"(", "+", " ", "1">>,
      <<")">>,
      <<"1", " ", "2">>,
      <<"(", "+", " ", "1", ")", " ", "2">>,
      <<"(", "(", "@", ")", " ", "(", "@", " ", "1", ")", ")">>,
      <<"(", "+", "\t", "1", "\f", "(", "*", " ", "2", "\n", "-", ".", "5", ")", ")">>,
      <<"(", "/", " ", "1", " ", "(", "-", " ", "1", " ", "1", ")", ")">>,
      <<"(", "/", " ", "1", " ", "-", "0", ")">> }

Inputs == {SRC} \cup Scenarios \cup RawTexts \cup WordTexts \cup CallTexts

(***************************************************************************)
(* main: lex, parse, then evaluate or report.                              *)
(***************************************************************************)
NoResult == [st |-> "None", v |-> NaN, err |-> ""]

Init ==
    /\ src \in Inputs
    /\ pc = "lex"
    /\ tokens = <<>>
    /\ cursor = 1
    /\ out = <<>>
    /\ errs = <<>>
    /\ result = NoResult
    /\ evalCalls = <<>>

\* Token::lexer(SRC).spanned().map(..), drained into the stream.
Lex ==
    /\ pc = "lex"
    /\ tokens' = tokenize(src)
    /\ pc' = "parse"
    /\ UNCHANGED <<src, cursor, out, errs, result, evalCalls>>

\* parser().parse(token_stream).into_output_errors()
Parse ==
    /\ pc = "parse"
    /\ LET r == parse(src, tokens)
       IN  /\ out' = r.out
           /\ errs' = r.errs
           /\ cursor' = r.next
    /\ pc' = "match"
    /\ UNCHANGED <<src, tokens, result, evalCalls>>

\* Eval without the errs.is_empty() guard.
EvalIgnoringErrs ==
    /\ pc = "match"
    /\ out # <<>>
    /\ \E zero \in {Zero(1), Zero(-1)} :
          LET r == eval(out[1], <<>>, zero)
          IN  /\ result' = [st |-> r.st, v |-> r.v, err |-> r.err]
              /\ evalCalls' = r.visited
    /\ pc' = "done"
    /\ UNCHANGED <<src, tokens, cursor, out, errs>>

\* The arm (Some(sexpr), errs) if errs.is_empty() => sexpr.eval().  An empty
\* f64 sum starts from 0.0 or, with newer standard libraries, from -0.0.
Eval ==
    /\ pc = "match"
    /\ out # <<>>
    /\ errs = <<>>
    /\ \E zero \in {Zero(1), Zero(-1)} :
          LET r == eval(out[1], <<>>, zero)
          IN  /\ result' = [st |-> r.st, v |-> r.v, err |-> r.err]
              /\ evalCalls' = r.visited
    /\ pc' = "done"
    /\ UNCHANGED <<src, tokens, cursor, out, errs>>

\* The arm (sexpr, errs): one report per error, then the recovered tree if
\* there is one.  eval is not called.
Report ==
    /\ pc = "match"
    /\ ~(out # <<>> /\ errs = <<>>)
    /\ result' = [st |-> "Reported", v |-> NaN, err |-> ""]
    /\ pc' = "done"
    /\ UNCHANGED <<src, tokens, cursor, out, errs, evalCalls>>

Next == Lex \/ Parse \/ Eval \/ Report

Spec == Init /\ [][Next]_vars

(***************************************************************************)
(* Definitions the properties are stated with.                             *)
(***************************************************************************)
Lexed == pc # "lex"

Parsed == pc \in {"match", "done"}

Finished == pc = "done"

TokIdx == 1..Len(tokens)

\* Open minus close delimiters among the first i tokens.
Depth(i) ==
    Cardinality({j \in 1..i : tokens[j].tok = "LParen"})
        - Cardinality({j \in 1..i : tokens[j].tok = "RParen"})

\* The token stream is exactly one expression of
\* E ::= atom | invalid token | '(' E* ')'.
OneExpr ==
    /\ Len(tokens) >= 1
    /\ \A i \in TokIdx : Depth(i) >= 0 /\ (i < Len(tokens) => Depth(i) > 0)
    /\ Depth(Len(tokens)) = 0

ErrorIdx == {i \in TokIdx : tokens[i].tok = "Error"}

WellFormed == OneExpr /\ ErrorIdx = {}

\* The tokens as leaves and delimiters.
TokView ==
    [i \in TokIdx |->
        IF tokens[i].tok = "Float" THEN FloatNode(ParseFloat(tokens[i].s))
        ELSE [k |-> tokens[i].tok]]

\* The tree written back as leaves and delimiters.
RECURSIVE Flatten(_)
RECURSIVE FlattenAll(_)
Flatten(node) ==
    IF node.k = "List"
    THEN <<[k |-> "LParen"]>> \o FlattenAll(node.items) \o <<[k |-> "RParen"]>>
    ELSE <<node>>

FlattenAll(items) ==
    IF items = <<>> THEN <<>> ELSE Flatten(Head(items)) \o FlattenAll(Tail(items))

RECURSIVE HasErrorLeaf(_)
HasErrorLeaf(node) ==
    \/ node.k = "Error"
    \/ node.k = "List" /\ \E i \in 1..Len(node.items) : HasErrorLeaf(node.items[i])

RECURSIVE NodeAt(_, _)
NodeAt(node, path) ==
    IF path = <<>> THEN node ELSE NodeAt(node.items[Head(path)], Tail(path))

\* The i-th smallest element of a set of numbers.
RECURSIVE Nth(_, _)
Nth(S, i) ==
    LET m == CHOOSE x \in S : \A y \in S : x <= y
    IN  IF i = 1 THEN m ELSE Nth(S \ {m}, i - 1)

IsWs(b) == src[b + 1] \in WhitespaceChars

Covered(b) == \E i \in TokIdx : tokens[i].lo <= b /\ b < tokens[i].hi

\* s is digits, or optional digits, a point and at least one digit.
NumericBody(s) ==
    /\ Len(s) >= 1
    /\ \/ \A i \in 1..Len(s) : IsDigit(s[i])
       \/ \E k \in 1..(Len(s) - 1) :
             /\ s[k] = "."
             /\ \A i \in 1..Len(s) : i # k => IsDigit(s[i])

BodyEnds(q) == {e \in (q + 1)..Len(src) : NumericBody(Slice(src, q, e))}

Root == out[1]

RootHead ==
    IF out # <<>> /\ Root.k = "List" /\ Len(Root.items) > 0
    THEN Root.items[1].k ELSE "none"

NumEq(a, b) == a = b \/ (IsZero(a) /\ IsZero(b))

Num(n) == [k |-> "fin", s |-> 1, n |-> n, d |-> 1]

\* The operands of the root list, evaluated each on its own.
OperandResults(zero) ==
    [i \in 1..(Len(Root.items) - 1) |-> eval(Root.items[i + 1], <<i + 1>>, zero)]

AllOk(rs) == \A i \in 1..Len(rs) : rs[i].st = "Ok"

RECURSIVE SumOf(_)
SumOf(rs) == IF rs = <<>> THEN Num(0) ELSE FAdd(Head(rs).v, SumOf(Tail(rs)))

RECURSIVE ProductOf(_)
ProductOf(rs) == IF rs = <<>> THEN Num(1) ELSE FMul(Head(rs).v, ProductOf(Tail(rs)))

\* Every failure of the tree in a left-to-right, depth-first walk that does
\* not stop at the first one: a bare operator outside head position, and a
\* list that is empty, has no operator head, or is (-) or (/).
RECURSIVE Failures(_, _)
RECURSIVE FailuresFrom(_, _, _)
Failures(node, path) ==
    IF node.k = "Float" THEN <<>>
    ELSE IF node.k \in Operators
    THEN <<[at |-> path, reason |-> OperatorError(node.k)]>>
    ELSE IF /\ Len(node.items) >= 1
            /\ node.items[1].k \in Operators
            /\ (node.items[1].k \in {"Sub", "Div"} => Len(node.items) >= 2)
    THEN FailuresFrom(node.items, 2, path)
    ELSE <<[at |-> path, reason |-> "Cannot evaluate list"]>>

FailuresFrom(items, i, path) ==
    IF i > Len(items) THEN <<>>
    ELSE Failures(items[i], path \o <<i>>) \o FailuresFrom(items, i + 1, path)

\* p comes before q in the depth-first order.
RECURSIVE Before(_, _)
Before(p, q) ==
    IF p = <<>> THEN q # <<>>
    ELSE IF q = <<>> THEN FALSE
    ELSE IF Head(p) # Head(q) THEN Head(p) < Head(q)
    ELSE Before(Tail(p), Tail(q))

(***************************************************************************)
(* C1.  As stated: every parse returns a tree.                             *)
(***************************************************************************)
\* C1 (as stated): for every input text the tree component of
\* parse(..).into_output_errors() is present.
C1_TreeNeverAbsent == Parsed => out # <<>>

\* C1 (amended): parse returns a tree exactly when the token stream is one
\* expression (an atom, an invalid token, or a balanced list of such), and
\* then one error per invalid token; for any other stream ("(+ 1", a stray
\* ")", trailing tokens, the empty text) it returns no tree and at least one
\* error.
C1_TreeIffOneExpr ==
    Parsed =>
      /\ Len(out) <= 1
      /\ (out # <<>>) <=> OneExpr
      /\ out # <<>> => Len(errs) = Cardinality(ErrorIdx)
      /\ out = <<>> => Len(errs) >= 1

C1_Witness ==
    /\ Finished
    /\ src = <<"(", "+", " ", "1">>
    /\ out = <<>>
    /\ Len(errs) = 1

(***************************************************************************)
(* C2.                                                                     *)
(***************************************************************************)
\* C2: when the token stream is one expression holding k >= 1 invalid
\* tokens, parse yields exactly k errors in source order, the j-th with the
\* span of the j-th invalid token and the reason "Unrecognised token 'X'"
\* for its source substring X, and the tree is the stream's structure with
\* an error leaf at each invalid token; "(+ 1 @)" gives one error over "@"
\* and the list (+ 1 <error>).
C2_OneErrorPerInvalidToken ==
    /\ (Parsed /\ OneExpr /\ ErrorIdx # {}) =>
         /\ out # <<>>
         /\ Len(errs) = Cardinality(ErrorIdx)
         /\ \A j \in 1..Len(errs) :
              LET t == tokens[Nth(ErrorIdx, j)]
              IN  /\ errs[j].lo = t.lo
                  /\ errs[j].hi = t.hi
                  /\ errs[j].reason =
                       <<"Unrecognised token '">> \o Slice(src, t.lo, t.hi) \o <<"'">>
         /\ Flatten(Root) = TokView
    /\ (Parsed /\ src = <<"(", "+", " ", "1", " ", "@", ")">>) =>
         /\ errs = <<[lo |-> 5, hi |-> 6,
                      reason |-> <<"Unrecognised token '", "@", "'">>]>>
         /\ out = <<ListNode(<<OpNode("Add"), FloatNode(Num(1)), ErrorNode>>)>>

\* Two invalid tokens in two different sublists.
C2_Witness ==
    /\ Finished
    /\ OneExpr
    /\ \E i, j \in ErrorIdx :
          /\ i < j
          /\ \E a, b \in TokIdx :
                /\ i < a /\ a < b /\ b < j
                /\ tokens[a].tok = "RParen"
                /\ tokens[b].tok = "LParen"
    /\ Len(errs) = 2

(***************************************************************************)
(* C3.                                                                     *)
(***************************************************************************)
\* C3: a parse either consumed every token up to the end of input or
\* reports at least one error, whose span is that of a token it did not
\* consume or the zero-width span at Len(src); with zero errors every token
\* was consumed; tokens after one complete expression, and the empty input,
\* never give zero errors.
C3_ConsumesAllOrReports ==
    Parsed =>
      /\ (cursor = Len(tokens) + 1 /\ out # <<>>) \/ Len(errs) >= 1
      /\ errs = <<>> => cursor = Len(tokens) + 1
      /\ out = <<>> =>
           \E i \in cursor..(Len(tokens) + 1) :
              /\ errs[Len(errs)].lo = SpanAt(src, tokens, i).lo
              /\ errs[Len(errs)].hi = SpanAt(src, tokens, i).hi
      /\ (\E i \in 1..(Len(tokens) - 1) : Depth(i) = 0) => errs # <<>>
      /\ src \in {<<"1", " ", "2">>, <<"(", "+", " ", "1", ")", " ", "2">>, <<>>} => errs # <<>>

\* Tokens remain after one complete list.
C3_Witness ==
    /\ Finished
    /\ out = <<>>
    /\ cursor > 3
    /\ cursor <= Len(tokens)
    /\ errs[Len(errs)].lo = tokens[cursor].lo

(***************************************************************************)
(* C4.                                                                     *)
(***************************************************************************)
\* C4: the emitted spans are non-empty, lie in [0, Len(src)), come in
\* strictly increasing order without overlap, and every byte outside them is
\* a whitespace byte, so spans and dropped whitespace partition the text.
C4_SpansPartitionText ==
    Lexed =>
      /\ \A i \in TokIdx :
           /\ 0 <= tokens[i].lo
           /\ tokens[i].lo < tokens[i].hi
           /\ tokens[i].hi <= Len(src)
           /\ i < Len(tokens) => tokens[i].hi <= tokens[i + 1].lo
      /\ \A b \in 0..(Len(src) - 1) : Covered(b) \/ IsWs(b)

\* A fall-back from a longer failed match ("1." or "+."), an invalid token
\* and a dropped whitespace byte.
C4_Witness ==
    /\ Lexed
    /\ \E i \in TokIdx :
          /\ i < Len(tokens)
          /\ tokens[i].tok \in {"Float", "Add"}
          /\ tokens[i + 1].tok = "Error"
          /\ tokens[i + 1].lo = tokens[i].hi
          /\ src[tokens[i + 1].lo + 1] = "."
    /\ \E b \in 0..(Len(src) - 1) : IsWs(b)

(***************************************************************************)
(* C5.                                                                     *)
(***************************************************************************)
\* C5: when the token stream is one expression with no invalid token, parse
\* returns zero errors and a tree with no error leaf that, written back as
\* leaves and delimiters, is the token stream.
C5_WellFormedParsesClean ==
    (Parsed /\ WellFormed) =>
      /\ out # <<>>
      /\ errs = <<>>
      /\ ~HasErrorLeaf(Root)
      /\ Flatten(Root) = TokView

\* A list that holds a list and a further element.
C5_Witness ==
    /\ Finished
    /\ WellFormed
    /\ Len(tokens) >= 6
    /\ \E i \in TokIdx : i > 1 /\ tokens[i].tok = "LParen"
    /\ \E i \in TokIdx : i > 1 /\ Depth(i) = 1 /\ tokens[i].tok = "Float"

(***************************************************************************)
(* C6.                                                                     *)
(***************************************************************************)
\* C6: eval is called only on a tree returned with no errors; a parse with
\* no errors returns a tree with no error leaf; so eval is never called on
\* an error leaf and never panics, and with errors it is not called at all.
C6_EvalNeverReachesErrorLeaf ==
    /\ evalCalls # <<>> => out # <<>> /\ errs = <<>>
    /\ (Parsed /\ errs = <<>>) => out # <<>> /\ ~HasErrorLeaf(Root)
    /\ \A i \in 1..Len(evalCalls) : NodeAt(Root, evalCalls[i]).k # "Error"
    /\ result.st # "Panic"
    /\ (Finished /\ errs # <<>>) => evalCalls = <<>> /\ result.st = "Reported"
    /\ (Finished /\ errs = <<>>) => evalCalls # <<>> /\ result.st \in {"Ok", "Err"}

\* A recovered tree with an error leaf that was reported, not evaluated.
C6_Witness ==
    /\ Finished
    /\ out # <<>>
    /\ HasErrorLeaf(Root)
    /\ errs # <<>>
    /\ evalCalls = <<>>

(***************************************************************************)
(* C7.                                                                     *)
(***************************************************************************)
\* C7: a list with head - (or /) and at least one further element, all of
\* which evaluate, evaluates to the first operand minus the sum (divided by
\* the product) of the others; (- 10 3 2) is 5 and (/ 8 2 2) is 2; (-) and
\* (/) fail with "Cannot evaluate list".
C7_SubDivOfFirstByRest ==
    /\ (Finished /\ evalCalls # <<>> /\ RootHead \in {"Sub", "Div"}) =>
         IF Len(Root.items) = 1
         THEN result.st = "Err" /\ result.err = "Cannot evaluate list"
         ELSE \E zero \in {Zero(1), Zero(-1)} :
                 LET rs == OperandResults(zero)
                 IN  AllOk(rs) =>
                       /\ result.st = "Ok"
                       /\ NumEq(result.v,
                                IF RootHead = "Sub"
                                THEN FSub(rs[1].v, SumOf(Tail(rs)))
                                ELSE FDiv(rs[1].v, ProductOf(Tail(rs))))
                       /\ Len(rs) = 1 => NumEq(result.v, rs[1].v)
    /\ (Finished /\ src = <<"(", "-", " ", "1", "0", " ", "3", " ", "2", ")">>) => result.st = "Ok" /\ result.v = Num(5)
    /\ (Finished /\ src = <<"(", "/", " ", "8", " ", "2", " ", "2", ")">>) => result.st = "Ok" /\ result.v = Num(2)
    /\ (Finished /\ src \in {<<"(", "-", ")">>, <<"(", "/", ")">>}) =>
         result.st = "Err" /\ result.err = "Cannot evaluate list"

\* A division with three operands that evaluates.
C7_Witness ==
    /\ Finished
    /\ RootHead = "Div"
    /\ Len(Root.items) = 4
    /\ result.st = "Ok"
    /\ result.v.k = "fin"
    /\ result.v.d > 1

(***************************************************************************)
(* C8.                                                                     *)
(***************************************************************************)
\* C8: a list with head + (or *) whose further elements all evaluate
\* evaluates to their sum (product), for any number of them: (+) is 0,
\* (* ) is 1, (+ 1 2 3) is 6; the empty list and a list whose head is no
\* operator fail with "Cannot evaluate list".
C8_AddMulOverAllOperands ==
    /\ (Finished /\ evalCalls # <<>> /\ RootHead \in {"Add", "Mul"}) =>
         \E zero \in {Zero(1), Zero(-1)} :
            LET rs == OperandResults(zero)
            IN  AllOk(rs) =>
                  /\ result.st = "Ok"
                  /\ NumEq(result.v,
                           IF RootHead = "Add" THEN SumOf(rs) ELSE ProductOf(rs))
    /\ (Finished /\ evalCalls # <<>> /\ Root.k = "List"
          /\ RootHead \notin Operators) =>
         result.st = "Err" /\ result.err = "Cannot evaluate list"
    /\ (Finished /\ src = <<"(", "+", ")">>) => result.st = "Ok" /\ IsZero(result.v)
    /\ (Finished /\ src = <<"(", "*", " ", ")">>) => result.st = "Ok" /\ result.v = Num(1)
    /\ (Finished /\ src = <<"(", "+", " ", "1", " ", "2", " ", "3", ")">>) => result.st = "Ok" /\ result.v = Num(6)

\* A product of three operands, one of them a list.
C8_Witness ==
    /\ Finished
    /\ RootHead = "Mul"
    /\ Len(Root.items) = 4
    /\ \E i \in 2..4 : Root.items[i].k = "List"
    /\ result.st = "Ok"
    /\ result.v = Num(8)

(***************************************************************************)
(* C9.                                                                     *)
(***************************************************************************)
\* C9: when eval fails it returns the reason of the first failure of the
\* left-to-right, depth-first walk; the failing node is the last node eval
\* was called on, every call before it is on a node earlier in the walk, and
\* eval succeeds only on a tree with no failure; (- + (1)) fails with the
\* bare-operator error for '+'.
C9_FirstFailureInWalkOrder ==
    /\ (Finished /\ evalCalls # <<>>) =>
         LET fs == Failures(Root, <<>>)
         IN  /\ result.st = "Ok" <=> fs = <<>>
             /\ result.st = "Err" =>
                  /\ result.err = fs[1].reason
                  /\ evalCalls[Len(evalCalls)] = fs[1].at
             /\ \A i \in 1..(Len(evalCalls) - 1) :
                  Before(evalCalls[i], evalCalls[i + 1])
    /\ (Finished /\ src = <<"(", "-", " ", "+", " ", "(", "1", ")", ")">>) =>
         result.st = "Err" /\ result.err = "Cannot evaluate operator '+'"

\* Two failures with different reasons, the second in a later sibling.
C9_Witness ==
    /\ Finished
    /\ result.st = "Err"
    /\ RootHead = "Sub"
    /\ LET fs == Failures(Root, <<>>)
       IN  /\ Len(fs) >= 2
           /\ fs[1].reason # fs[2].reason
           /\ fs[1].at = <<2>>
           /\ fs[2].at = <<3>>

(***************************************************************************)
(* C10.                                                                    *)
(***************************************************************************)
\* C10: a '+' or '-' directly followed by a numeric body starts one Float
\* token that runs to the end of the longest such body and carries that
\* source substring; an Add or Sub token is never directly followed by a
\* numeric body; "(+1 2)" lexes to LParen Float("+1") Float("2") RParen,
\* parses with no error to a list with no operator head and fails with
\* "Cannot evaluate list", and "(+ 1 2)" evaluates to 3.
C10_SignBelongsToLiteral ==
    /\ Lexed =>
         /\ \A p \in 0..(Len(src) - 1) :
              (src[p + 1] \in Signs /\ BodyEnds(p + 1) # {}) =>
                 \E i \in TokIdx :
                    /\ tokens[i].tok = "Float"
                    /\ tokens[i].lo = p
                    /\ tokens[i].hi \in BodyEnds(p + 1)
                    /\ \A e \in BodyEnds(p + 1) : e <= tokens[i].hi
                    /\ tokens[i].s = Slice(src, p, tokens[i].hi)
         /\ \A i \in TokIdx :
              tokens[i].tok \in {"Add", "Sub"} => BodyEnds(tokens[i].hi) = {}
    /\ (Finished /\ src = <<"(", "+", "1", " ", "2", ")">>) =>
         /\ tokens = <<[tok |-> "LParen", s |-> <<"(">>, lo |-> 0, hi |-> 1],
                       [tok |-> "Float", s |-> <<"+", "1">>, lo |-> 1, hi |-> 3],
                       [tok |-> "Float", s |-> <<"2">>, lo |-> 4, hi |-> 5],
                       [tok |-> "RParen", s |-> <<")">>, lo |-> 5, hi |-> 6]>>
         /\ errs = <<>>
         /\ out = <<ListNode(<<FloatNode(Num(1)), FloatNode(Num(2))>>)>>
         /\ result.st = "Err"
         /\ result.err = "Cannot evaluate list"
    /\ (Finished /\ src = <<"(", "+", " ", "1", " ", "2", ")">>) => result.st = "Ok" /\ result.v = Num(3)

\* A sign taken into a literal right after another literal ("1+1").
C10_Witness ==
    /\ Lexed
    /\ \E i \in TokIdx :
          /\ i > 1
          /\ tokens[i].tok = "Float"
          /\ tokens[i].s[1] \in Signs
          /\ tokens[i - 1].tok = "Float"
          /\ tokens[i - 1].hi = tokens[i].lo

====
